---- MODULE Spec2Model ----
(***************************************************************************)
(* A model of generate_frams_pyi_from_framscript_pydantic_xml.py: the       *)
(* emitter main_write_framscript_part_of_the_stub, the pure helpers it      *)
(* uses, the loader, format_code_with_ruff and the script around them; and  *)
(* of FramsticksLib.getRandomGenotype.                                      *)
(*                                                                          *)
(* Text is a sequence of one-character strings, so that the string          *)
(* operations of the source (strip, splitlines, repr, lower, replace, +)    *)
(* are computed and not assumed.  A value of type Optional[str] is a record *)
(* [isNone, s]: None, or Str(s).                                            *)
(*                                                                          *)
(* A line written by print() is a record holding the interpolated pieces    *)
(* of the f-string it was built from.                                       *)
(***************************************************************************)
EXTENDS Naturals, Sequences, FiniteSets, TLC

VARIABLES
    doc,                 \* the FramscriptDoc handed to the emitter
    pc,                  \* position in main_write_framscript_part_of_the_stub
    ti,                  \* index of each_type in doc.types
    ei,                  \* index of el in each_type.elements
    buf,                 \* the lines printed so far
    duplicate_elements,  \* the local of that name (per type)
    ret_type_comment,    \* the local of that name: unbound until first assigned
    exc,                 \* the exception that ended the emitter, if any
    call,                \* pure-function harness: the call being made
    ret,                 \* pure-function harness: what it returned
    input,               \* __main__: the file named on the command line
    mpc,                 \* __main__: position in the script
    loaded,              \* __main__: doc is bound to a parsed document
    buf_fmt,             \* __main__: the local of that name
    ruff,                \* format_code_with_ruff: how the two subprocesses ended
    stdout,              \* what the process wrote to its standard output
    stderr,              \* what the process wrote to its standard error
    status,              \* the exit status, once mpc = "exited"
    grg                  \* the frame of FramsticksLib.getRandomGenotype

mainVars == <<input, mpc, loaded, buf_fmt, ruff, stdout, stderr, status>>

vars == <<doc, pc, ti, ei, buf, duplicate_elements, ret_type_comment, exc, call, ret,
          mainVars, grg>>

emitVars == <<doc, pc, ti, ei, buf, duplicate_elements, ret_type_comment, exc>>

(***************************************************************************)
(* Bounds of the model.                                                     *)
(***************************************************************************)
MaxTypes == 2   \* types in a document
MaxElems == 2   \* elements in a document, over all its types
MaxArgs == 3    \* arguments of a function
MaxLen == 3     \* characters in a generated text

(***************************************************************************)
(* Text.                                                                    *)
(***************************************************************************)
NL == "\n"
BS == "\\"
SQ == "'"
DQ == "\""
SP == " "

None == [isNone |-> TRUE, s |-> <<>>]

Str(t) == [isNone |-> FALSE, s |-> t]

\* bool(x) of an Optional[str]: None and "" are falsy
Truthy(x) == ~x.isNone /\ x.s # <<>>

SeqsUpTo(S, n) == UNION {[1..k -> S] : k \in 0..n}

Contains(t, c) == \E i \in 1..Len(t) : t[i] = c

Spaces(n) == [i \in 1..n |-> SP]

RECURSIVE Join(_, _)
\* sep.join(parts)
Join(parts, sep) ==
    IF parts = <<>> THEN <<>>
    ELSE IF Len(parts) = 1 THEN parts[1]
    ELSE parts[1] \o sep \o Join(Tail(parts), sep)

\* str.isspace() on the characters the model uses
Whitespace == {SP, NL, "\t", "\r"}

RECURSIVE LStrip(_)
LStrip(t) == IF t # <<>> /\ Head(t) \in Whitespace THEN LStrip(Tail(t)) ELSE t

RECURSIVE RStrip(_)
RStrip(t) ==
    IF t # <<>> /\ t[Len(t)] \in Whitespace
    THEN RStrip(SubSeq(t, 1, Len(t) - 1))
    ELSE t

\* str.strip()
Strip(t) == RStrip(LStrip(t))

\* the line boundaries str.splitlines() knows, among the model's characters
LineBreaks == {NL}

RECURSIVE Splitlines(_)
\* str.splitlines(): no empty last line after a final line break
Splitlines(t) ==
    IF t = <<>> THEN <<>>
    ELSE IF \E i \in 1..Len(t) : t[i] \in LineBreaks
    THEN LET i == CHOOSE j \in 1..Len(t) :
                     /\ t[j] \in LineBreaks
                     /\ \A k \in 1..(j - 1) : t[k] \notin LineBreaks
         IN  <<SubSeq(t, 1, i - 1)>> \o Splitlines(SubSeq(t, i + 1, Len(t)))
    ELSE <<t>>

\* the character repr() writes for c inside quotes of kind q
ReprChar(c, q) ==
    IF c = BS THEN <<BS, BS>>
    ELSE IF c = NL THEN <<BS, "n">>
    ELSE IF c = "\t" THEN <<BS, "t">>
    ELSE IF c = "\r" THEN <<BS, "r">>
    ELSE IF c = q THEN <<BS, q>>
    ELSE <<c>>

RECURSIVE ReprBody(_, _)
ReprBody(t, q) ==
    IF t = <<>> THEN <<>> ELSE ReprChar(Head(t), q) \o ReprBody(Tail(t), q)

\* repr() of a str: single quotes unless the text holds ' and no "
Repr(t) ==
    LET q == IF Contains(t, SQ) /\ ~Contains(t, DQ) THEN DQ ELSE SQ
    IN  <<q>> \o ReprBody(t, q) \o <<q>>

UPPER == <<"A", "B", "C", "D", "E", "F", "G", "H", "I", "J", "K", "L", "M",
           "N", "O", "P", "Q", "R", "S", "T", "U", "V", "W", "X", "Y", "Z">>

LOWER == <<"a", "b", "c", "d", "e", "f", "g", "h", "i", "j", "k", "l", "m",
           "n", "o", "p", "q", "r", "s", "t", "u", "v", "w", "x", "y", "z">>

\* str.lower()
Lower(t) ==
    [i \in 1..Len(t) |->
        IF \E k \in 1..Len(UPPER) : UPPER[k] = t[i]
        THEN LOWER[CHOOSE k \in 1..Len(UPPER) : UPPER[k] = t[i]]
        ELSE t[i]]

Digits == {"0", "1", "2", "3", "4", "5", "6", "7", "8", "9"}

\* str.replace(' ', '_')
ReplaceSpaces(t) == [i \in 1..Len(t) |-> IF t[i] = SP THEN "_" ELSE t[i]]

(***************************************************************************)
(* Literal text of the source.                                              *)
(***************************************************************************)
K_string == <<"s", "t", "r", "i", "n", "g">>
K_float == <<"f", "l", "o", "a", "t">>
K_integer == <<"i", "n", "t", "e", "g", "e", "r">>
K_void == <<"v", "o", "i", "d">>
K_untyped == <<"u", "n", "t", "y", "p", "e", "d">>
T_str == <<"s", "t", "r">>
T_int == <<"i", "n", "t">>
T_None == <<"N", "o", "n", "e">>
T_Any == <<"A", "n", "y">>
T_ExtValue == <<"E", "x", "t", "V", "a", "l", "u", "e">>
T_object == <<" ", "o", "b", "j", "e", "c", "t">>
T_arrow == <<" ", "-", ">", " ">>
T_returns == <<" ", " ", "#", " ", "r", "e", "t", "u", "r", "n", "s", " ">>
T_hash == <<" ", " ", "#", " ">>
T_quotes == <<DQ, DQ, DQ>>
T_rquotes == <<"r", DQ, DQ, DQ>>

\* mutant: "as" is missing from the list
INVALID_PY_IDENTS_WithoutAs ==
    { <<"i", "m", "p", "o", "r", "t">>,
      <<"c", "l", "a", "s", "s">>,
      <<"d", "e", "f">> }

INVALID_PY_IDENTS ==
    { <<"i", "m", "p", "o", "r", "t">>,
      <<"c", "l", "a", "s", "s">>,
      <<"d", "e", "f">>,
      <<"a", "s">> }

GLOBAL_CONTEXT == "Global context"

\* Mapping between framscript and simple Python types
MAP_TO_SIMPLE_PY_TYPE ==
    (K_string :> T_str) @@ (K_float :> K_float) @@ (K_integer :> T_int)
        @@ (K_void :> T_None) @@ (K_untyped :> T_Any)

\* MAP_TO_SIMPLE_PY_TYPE.get(key), key an Optional[str]
MapGet(key) ==
    IF ~key.isNone /\ key.s \in DOMAIN MAP_TO_SIMPLE_PY_TYPE
    THEN Str(MAP_TO_SIMPLE_PY_TYPE[key.s])
    ELSE None

(***************************************************************************)
(* The pure helpers.                                                        *)
(***************************************************************************)
DefaultIndent == 4

FunctionDocIndent == 8

\* mutant: the backslash is not looked for before the one-line form is chosen
format_description_as_docstring_NoBackslashTest(desc, indent) ==
    LET desc_lines == Splitlines(Strip(desc))
        pad == Spaces(indent)
    IN  IF Len(desc_lines) = 0 THEN <<>>
        ELSE IF Len(desc_lines) = 1
        THEN pad \o Repr(desc_lines[1])
        ELSE Join(
                 <<pad \o (IF Contains(desc, BS) THEN T_rquotes ELSE T_quotes)>>
                     \o [i \in 1..Len(desc_lines) |-> pad \o desc_lines[i]]
                     \o <<pad \o T_quotes>>,
                 <<NL>>)

\* format_description_as_docstring(desc, indent), desc a str
format_description_as_docstring(desc, indent) ==
    LET desc_lines == Splitlines(Strip(desc))
        pad == Spaces(indent)
    IN  IF Len(desc_lines) = 0 THEN <<>>
        ELSE IF Len(desc_lines) = 1 /\ ~Contains(desc, BS)
        THEN pad \o Repr(desc_lines[1])
        ELSE Join(
                 <<pad \o (IF Contains(desc, BS) THEN T_rquotes ELSE T_quotes)>>
                     \o [i \in 1..Len(desc_lines) |-> pad \o desc_lines[i]]
                     \o <<pad \o T_quotes>>,
                 <<NL>>)

\* mutant: "Any" is taken for a representable type
format_as_python_type_extvalue_AnyWrapped(el_type) ==
    LET maybe_py_type == MapGet(el_type)
    IN  IF ~maybe_py_type.isNone
        THEN [type |-> T_ExtValue \o <<"[">> \o maybe_py_type.s \o <<"]">>,
              comment |-> Str(<<>>)]
        ELSE [type |-> T_ExtValue, comment |-> el_type]

\* format_as_python_type_extvalue(el_type): the pair (expression, comment);
\* el_type is None for an element with no type attribute
format_as_python_type_extvalue(el_type) ==
    LET maybe_py_type == MapGet(el_type)
    IN  IF ~maybe_py_type.isNone
           /\ maybe_py_type.s \in {T_int, K_float, T_str, T_None}
        THEN [type |-> T_ExtValue \o <<"[">> \o maybe_py_type.s \o <<"]">>,
              comment |-> Str(<<>>)]
        ELSE [type |-> T_ExtValue, comment |-> el_type]

\* id_py of an element (the reserved-word rule of the element loop)
IdPy(id) == IF id \in INVALID_PY_IDENTS THEN id \o <<"_">> ELSE id

\* mutant: a repeated name gets no suffix
ArgName_NoSuffix(arg, arg_name_repeats) ==
    LET n0 == IF Truthy(arg.name) THEN arg.name.s ELSE <<"_">>
    IN  IF Head(n0) \in Digits THEN <<"a", "_">> \o n0 ELSE n0

\* the name of one argument before the space replacement, given the names
\* already in arg_name_repeats
ArgName(arg, arg_name_repeats) ==
    LET n0 == IF Truthy(arg.name) THEN arg.name.s ELSE <<"_">>
        n1 == IF Head(n0) \in Digits THEN <<"a", "_">> \o n0 ELSE n0
    IN  IF n1 \in arg_name_repeats THEN n1 \o <<"_", "2">> ELSE n1

\* mutant: the fallback annotation is not quoted
ArgAnnotation_Unquoted(arg) ==
    LET arg_type_py == MapGet(arg.type)
    IN  IF ~arg_type_py.isNone THEN arg_type_py.s
        ELSE IF arg.type.isNone THEN T_None
        ELSE arg.type.s

\* the annotation of one argument
ArgAnnotation(arg) ==
    LET arg_type_py == MapGet(arg.type)
    IN  IF ~arg_type_py.isNone THEN arg_type_py.s
        ELSE IF arg.type.isNone THEN T_None
        ELSE Repr(arg.type.s)

RECURSIVE ArgLoop(_, _, _)
\* the loop over func_args: args is the list built so far
ArgLoop(func_args, args, arg_name_repeats) ==
    IF func_args = <<>> THEN args
    ELSE LET arg == Head(func_args)
             arg_name == ArgName(arg, arg_name_repeats)
         IN  ArgLoop(Tail(func_args),
                     Append(args, [name |-> ReplaceSpaces(arg_name),
                                   ann |-> ArgAnnotation(arg)]),
                     arg_name_repeats \cup {arg_name})

\* the entries of the parenthesised argument list, each "name: ann"; the
\* source joins them with ", "
FormatArgs(func_args) == ArgLoop(func_args, <<>>, {})

\* the assert of the argument loop
ArgsAssertOk(func_args) ==
    \A i \in 1..Len(func_args) : ~Truthy(func_args[i].description)

(***************************************************************************)
(* The lines of the stub.  Every line has the same fields: kind, and the    *)
(* pieces interpolated into it (those a kind does not use are empty).       *)
(***************************************************************************)
Line(kind, text, type, args, comment) ==
    [kind |-> kind, text |-> text, type |-> type, args |-> args,
     comment |-> comment]

Fixed(kind) == Line(kind, <<>>, <<>>, <<>>, <<>>)

\* the four print() calls before the loop over the types
HeaderLines ==
    << Fixed("from warnings import deprecated"),
       Fixed("from typing import Any, overload"),
       Fixed("from typing import Any as Object"),
       Fixed("class ExtValue: ...") >>

\* print(f"class {each_type.name}(ExtValue):")
ClassLine(name) == Line("class", name, <<>>, <<>>, <<>>)

\* print(format_description_as_docstring(...)): a blank line when it is ""
DocstringLine(text) == Line("docstring", text, <<>>, <<>>, <<>>)

\* print(f"    def {id_py}({args}){ret_type}:{ret_type_comment}")
DefLine(id_py, args, ret_type, comment) ==
    Line("def", id_py, ret_type, args, comment)

\* print(f"    {id_py}: {el_type_py}{el_type_comment}")
FieldLine(id_py, el_type_py, el_type_comment) ==
    Line("field", id_py, el_type_py, <<>>, el_type_comment)

(***************************************************************************)
(* The loop over the elements of a type.                                   *)
(***************************************************************************)
Unbound == [bound |-> FALSE, s |-> <<>>]

Bound(t) == [bound |-> TRUE, s |-> t]

\* Element.is_function
is_function(el) == el.function = "true"

\* Element.is_deprecated
is_deprecated(el) == el.deprecated = "true"

\* mutant: v > 0 for v > 1
DuplicateElements_AnyCount(elements) ==
    { elements[i].id : i \in 1..Len(elements) }

\* the ids that occur more than once among the elements of a type
DuplicateElements(elements) ==
    { elements[i].id : i \in
        { j \in 1..Len(elements) :
            \E k \in 1..Len(elements) : k # j /\ elements[k].id = elements[j].id } }

\* mutant: the name and the id are compared as they are written
Descr_CaseSensitive(el) ==
    LET descr == IF Truthy(el.description) THEN el.description.s ELSE <<>>
    IN  IF ~el.name.isNone
           /\ el.name.s # el.id
           /\ el.name.s # el.id \o T_object
        THEN el.name.s \o <<NL, NL>> \o descr
        ELSE descr

\* descr of an element: its description, with its name before it when the
\* name differs from the id
Descr(el) ==
    LET descr == IF Truthy(el.description) THEN el.description.s ELSE <<>>
    IN  IF ~el.name.isNone
           /\ Lower(el.name.s) # Lower(el.id)
           /\ Lower(el.name.s) # Lower(el.id) \o T_object
        THEN el.name.s \o <<NL, NL>> \o descr
        ELSE descr

\* mutant: @overload is printed first
Decorators_OverloadFirst(el, dups) ==
    (IF el.id \in dups THEN <<Fixed("@overload")>> ELSE <<>>)
        \o (IF is_deprecated(el) THEN <<Fixed("@deprecated")>> ELSE <<>>)
        \o <<Fixed("@staticmethod")>>

\* the decorators printed before a signature
Decorators(el, dups) ==
    (IF is_deprecated(el) THEN <<Fixed("@deprecated")>> ELSE <<>>)
        \o (IF el.id \in dups THEN <<Fixed("@overload")>> ELSE <<>>)
        \o <<Fixed("@staticmethod")>>

\* ret_type_comment after the "if el.type is not None" block, given its
\* value rtc before the block
RetTypeComment(el, rtc) ==
    IF el.type.isNone THEN rtc
    ELSE LET c == format_as_python_type_extvalue(el.type).comment
         IN  IF Truthy(c) THEN Bound(T_returns \o c.s) ELSE Bound(c.s)

\* ret_type of a function element
RetType(el) ==
    IF el.type.isNone THEN <<>>
    ELSE T_arrow \o format_as_python_type_extvalue(el.type).type

\* mutant: the "..." after the docstring is not printed
FunctionLines_NoPlaceholder(el, dups, rtc) ==
    LET rtc2 == RetTypeComment(el, rtc)
    IN  IF ~ArgsAssertOk(el.arguments)
        THEN [lines |-> <<>>, rtc |-> rtc, exc |-> "AssertionError"]
        ELSE IF ~rtc2.bound
        THEN [lines |-> Decorators(el, dups), rtc |-> rtc2,
              exc |-> "UnboundLocalError"]
        ELSE [lines |-> Decorators(el, dups)
                        \o << DefLine(IdPy(el.id), FormatArgs(el.arguments),
                                      RetType(el), rtc2.s),
                              DocstringLine(format_description_as_docstring(
                                  Descr(el), FunctionDocIndent)),
                              Fixed("") >>,
              rtc |-> rtc2, exc |-> ""]

\* One pass of the loop body for a function element: what it prints, the
\* value it leaves in ret_type_comment, and the exception it raises if any.
\* The decorators are printed before the signature is formatted.
FunctionLines(el, dups, rtc) ==
    LET rtc2 == RetTypeComment(el, rtc)
    IN  IF ~ArgsAssertOk(el.arguments)
        THEN [lines |-> <<>>, rtc |-> rtc, exc |-> "AssertionError"]
        ELSE IF ~rtc2.bound
        THEN [lines |-> Decorators(el, dups), rtc |-> rtc2,
              exc |-> "UnboundLocalError"]
        ELSE [lines |-> Decorators(el, dups)
                        \o << DefLine(IdPy(el.id), FormatArgs(el.arguments),
                                      RetType(el), rtc2.s),
                              DocstringLine(format_description_as_docstring(
                                  Descr(el), FunctionDocIndent)),
                              Fixed("..."),
                              Fixed("") >>,
              rtc |-> rtc2, exc |-> ""]

\* mutant: the docstring of a field is printed whatever descr is
FieldLines_AlwaysDocstring(el, rtc) ==
    LET t == format_as_python_type_extvalue(el.type)
        el_type_comment == IF Truthy(t.comment) THEN T_hash \o t.comment.s
                           ELSE <<>>
    IN  [lines |-> << FieldLine(IdPy(el.id), t.type, el_type_comment),
                      DocstringLine(format_description_as_docstring(
                          Descr(el), DefaultIndent)) >>,
         rtc |-> rtc, exc |-> ""]

\* One pass of the loop body for a field element.
FieldLines(el, rtc) ==
    LET t == format_as_python_type_extvalue(el.type)
        el_type_comment == IF Truthy(t.comment) THEN T_hash \o t.comment.s
                           ELSE <<>>
    IN  [lines |-> <<FieldLine(IdPy(el.id), t.type, el_type_comment)>>
                   \o (IF Descr(el) # <<>>
                       THEN <<DocstringLine(format_description_as_docstring(
                                  Descr(el), DefaultIndent))>>
                       ELSE <<>>),
         rtc |-> rtc, exc |-> ""]

\* mutant: is_function is not consulted
ElementLines_AllFunctions(el, dups, rtc) == FunctionLines(el, dups, rtc)

\* One pass of the loop body
ElementLines(el, dups, rtc) ==
    IF is_function(el) THEN FunctionLines(el, dups, rtc) ELSE FieldLines(el, rtc)

(***************************************************************************)
(* The documents the emitter is run on.                                    *)
(***************************************************************************)
OpaqueType == <<"X">>

\* the argument lists get_arguments returns
UnnamedStringArg ==
    [name |-> None, type |-> Str(K_string), description |-> Str(<<>>)]

\* the elements of the documents: functions of every kind of type, fields
\* of the opaque type
ElementPool ==
    { [id |-> id, name |-> None, type |-> type, function |-> function,
       deprecated |-> "false", description |-> Str(<<>>),
       arguments |-> IF function = "true" /\ id \in INVALID_PY_IDENTS
                     THEN <<UnnamedStringArg>> ELSE <<>>] :
        id \in {<<"f">>, <<"d", "e", "f">>},
        type \in {None, Str(K_string), Str(OpaqueType)},
        function \in {"true"} }
    \cup
    { [id |-> id, name |-> None, type |-> Str(OpaqueType), function |-> "false",
       deprecated |-> "false", description |-> Str(<<>>), arguments |-> <<>>] :
        id \in {<<"f">>, <<"d", "e", "f">>} }

Contexts == {"Global context", "expdef file"}

\* the i-th type of a document is named by the i-th capital letter
TypeName(i) == <<UPPER[i]>>

RECURSIVE Sum(_)
Sum(counts) == IF counts = <<>> THEN 0 ELSE Head(counts) + Sum(Tail(counts))

\* how many elements each type of a document holds: at most MaxTypes types
\* and at most MaxElems elements together
Shapes ==
    UNION { { counts \in [1..n -> 0..MaxElems] : Sum(counts) <= MaxElems } :
            n \in 0..MaxTypes }

\* the document whose i-th type has context contexts[i] and the next
\* counts[i] elements of flat
MkDoc(counts, contexts, flat) ==
    [types |->
        [i \in 1..Len(counts) |->
            [name |-> TypeName(i),
             context |-> contexts[i],
             description |-> Str(<<>>),
             elements |->
                 LET before == Sum(SubSeq(counts, 1, i - 1))
                 IN  [j \in 1..counts[i] |-> flat[before + j]]]]]

(***************************************************************************)
(* main_write_framscript_part_of_the_stub(doc), step by step.              *)
(***************************************************************************)
NoCall == [fn |-> "", text |-> <<>>, indent |-> 0, opt |-> None, args |-> <<>>]

NoRet == [done |-> FALSE, val |-> <<>>]

each_type == doc.types[ti]

\* the script is not being run
NoInput == [file |-> "", types |-> <<>>]

NoText == [formatted |-> FALSE, lines |-> <<>>]

NoRuff == [probe |-> "", format |-> ""]

MainIdle ==
    /\ input = NoInput
    /\ mpc = "idle"
    /\ loaded = FALSE
    /\ buf_fmt = NoText
    /\ ruff = NoRuff
    /\ stdout = <<>>
    /\ stderr = <<>>
    /\ status = 0

\* the genotype mutate returns when it fails: not a valid creature
GENOTYPE_INVALID == [valid |-> FALSE, numparts |-> 0, numneurons |-> 0]

\* getRandomGenotype is not being run
NoFrame ==
    [pc |-> "idle", exc |-> "", initial_genotype |-> GENOTYPE_INVALID,
     parts_min |-> 0, parts_max |-> 0, neurons_min |-> 0, neurons_max |-> 0,
     iter_max |-> 0, return_even_if_failed |-> FALSE,
     target_parts |-> 0, target_neurons |-> 0,
     g |-> GENOTYPE_INVALID, i |-> 0,
     best_diff |-> [isNone |-> TRUE, n |-> 0], best_in_target_range |-> FALSE,
     result |-> [isNone |-> TRUE, g |-> GENOTYPE_INVALID]]

\* mutant: the test names the wrong context as well
IsSkipped_ExpdefKept(type) ==
    type.context \notin {GLOBAL_CONTEXT, "Global context", "expdef file"}

\* the test of the "continue" at the top of the loop over the types
IsSkipped(type) == type.context \notin {GLOBAL_CONTEXT, "Global context"}

Init ==
    /\ \E counts \in Shapes :
         \E contexts \in [1..Len(counts) -> Contexts] :
           \E flat \in [1..Sum(counts) -> ElementPool] :
             doc = MkDoc(counts, contexts, flat)
    /\ pc = "header"
    /\ ti = 1
    /\ ei = 1
    /\ buf = <<>>
    /\ duplicate_elements = {}
    /\ ret_type_comment = Unbound
    /\ exc = ""
    /\ call = NoCall
    /\ ret = NoRet
    /\ MainIdle
    /\ grg = NoFrame

WriteHeader ==
    /\ pc = "header"
    /\ buf' = buf \o HeaderLines
    /\ pc' = "types"
    /\ UNCHANGED <<doc, ti, ei, duplicate_elements, ret_type_comment, exc, call, ret, mainVars, grg>>

\* a type of another context: continue
SkipType ==
    /\ pc = "types"
    /\ ti <= Len(doc.types)
    /\ IsSkipped(each_type)
    /\ ti' = ti + 1
    /\ UNCHANGED <<doc, pc, ei, buf, duplicate_elements, ret_type_comment, exc, call, ret, mainVars, grg>>

\* the class line, the docstring of the type, and the duplicate ids
BeginType ==
    /\ pc = "types"
    /\ ti <= Len(doc.types)
    /\ ~IsSkipped(each_type)
    /\ IF each_type.description.isNone
       THEN \* None.strip() raises inside format_description_as_docstring
            /\ buf' = buf \o <<ClassLine(each_type.name), Fixed("(missing docstring?)")>>
            /\ pc' = "failed"
            /\ exc' = "AttributeError"
            /\ ei' = 1
            /\ UNCHANGED duplicate_elements
       ELSE /\ buf' = buf \o << ClassLine(each_type.name),
                                DocstringLine(format_description_as_docstring(
                                    each_type.description.s, DefaultIndent)),
                                Fixed("") >>
            /\ duplicate_elements' = DuplicateElements(each_type.elements)
            /\ ei' = 1
            /\ pc' = "elements"
            /\ UNCHANGED exc
    /\ UNCHANGED <<doc, ti, ret_type_comment, call, ret, mainVars, grg>>

\* one pass of "for el in each_type.elements"
EmitElement ==
    /\ pc = "elements"
    /\ ei <= Len(each_type.elements)
    /\ LET r == ElementLines(each_type.elements[ei], duplicate_elements,
                             ret_type_comment)
       IN  /\ buf' = buf \o r.lines
           /\ ret_type_comment' = r.rtc
           /\ exc' = r.exc
           /\ IF r.exc = ""
              THEN ei' = ei + 1 /\ pc' = pc
              ELSE ei' = ei /\ pc' = "failed"
    /\ UNCHANGED <<doc, ti, duplicate_elements, call, ret, mainVars, grg>>

\* the print("") after the elements of a type
EndType ==
    /\ pc = "elements"
    /\ ei > Len(each_type.elements)
    /\ buf' = Append(buf, Fixed(""))
    /\ ti' = ti + 1
    /\ pc' = "types"
    /\ UNCHANGED <<doc, ei, duplicate_elements, ret_type_comment, exc, call, ret, mainVars, grg>>

\* the loop over the types is over: the function returns
Return ==
    /\ pc = "types"
    /\ ti > Len(doc.types)
    /\ pc' = "done"
    /\ UNCHANGED <<doc, ti, ei, buf, duplicate_elements, ret_type_comment, exc, call, ret, mainVars, grg>>

Next == WriteHeader \/ SkipType \/ BeginType \/ EmitElement \/ EndType \/ Return

Spec == Init /\ [][Next]_vars

(***************************************************************************)
(* The pure helpers called on their own, on inputs drawn from bounded sets. *)
(***************************************************************************)
DescChars == {"a", SP, NL, BS, SQ}

TypeChars == {"s", "t", "r"}

IdChars == {"a", "s", "_"}

TypeNames ==
    {K_string, K_float, K_integer, K_void, K_untyped}
        \cup SeqsUpTo(TypeChars, MaxLen)

ArgNames ==
    { None, Str(<<>>), Str(<<"x">>), Str(<<"x", "_", "2">>), Str(<<"1">>),
      Str(<<"a", " ", "b">>), Str(<<"a", "_", "b">>) }

ArgPool ==
    [name : ArgNames, type : {None, Str(K_string), Str(OpaqueType)},
     description : {Str(<<>>)}]

Calls ==
    { [fn |-> "format_description_as_docstring", text |-> t, indent |-> n,
       opt |-> None, args |-> <<>>] :
        t \in SeqsUpTo(DescChars, MaxLen), n \in {DefaultIndent, FunctionDocIndent} }
    \cup
    { [fn |-> "format_as_python_type_extvalue", text |-> <<>>, indent |-> 0,
       opt |-> o, args |-> <<>>] :
        o \in {None} \cup {Str(t) : t \in TypeNames} }
    \cup
    { [fn |-> "id_py", text |-> t, indent |-> 0, opt |-> None, args |-> <<>>] :
        t \in INVALID_PY_IDENTS \cup SeqsUpTo(IdChars, MaxLen) }
    \cup
    { [fn |-> "args", text |-> <<>>, indent |-> 0, opt |-> None, args |-> a] :
        a \in SeqsUpTo(ArgPool, MaxArgs) }

InitFn ==
    /\ doc = [types |-> <<>>]
    /\ pc = "idle"
    /\ ti = 1
    /\ ei = 1
    /\ buf = <<>>
    /\ duplicate_elements = {}
    /\ ret_type_comment = Unbound
    /\ exc = ""
    /\ call \in Calls
    /\ ret = NoRet
    /\ MainIdle
    /\ grg = NoFrame

Returns(val) == ret' = [done |-> TRUE, val |-> val] /\ UNCHANGED <<emitVars, call, mainVars, grg>>

CallDocstring ==
    /\ call.fn = "format_description_as_docstring"
    /\ ~ret.done
    /\ Returns(format_description_as_docstring(call.text, call.indent))

CallTypeMapper ==
    /\ call.fn = "format_as_python_type_extvalue"
    /\ ~ret.done
    /\ Returns(format_as_python_type_extvalue(call.opt))

CallIdPy ==
    /\ call.fn = "id_py"
    /\ ~ret.done
    /\ Returns(IdPy(call.text))

CallFormatArgs ==
    /\ call.fn = "args"
    /\ ~ret.done
    /\ ArgsAssertOk(call.args)
    /\ Returns(FormatArgs(call.args))

NextFn == CallDocstring \/ CallTypeMapper \/ CallIdPy \/ CallFormatArgs

SpecFn == InitFn /\ [][NextFn]_vars

(***************************************************************************)
(* The script: the body of  if __name__ == "__main__".                     *)
(*                                                                          *)
(* What a stream receives is a sequence of items: a diagnostic message, or  *)
(* the stub text (the lines of buf, as the emitter or as ruff left them).   *)
(***************************************************************************)
Diag(msg) == [what |-> "diagnostic", msg |-> msg, formatted |-> FALSE, lines |-> <<>>]

StubItem(text) ==
    [what |-> "stub", msg |-> "", formatted |-> text.formatted, lines |-> text.lines]

\* the values Type.context may take
RecognizedContexts ==
    { "Command line interface", "Experiment definition", "Fitness formula",
      "Framsticks Theater", "Global context", "Neuron definitions",
      "Signal label formula", "Visual style definition", "expdef file",
      "neuro file", "properties file", "script file", "show file",
      "state file", "style file" }

\* mutant: any context is accepted
TypeIsValid_AnyContext(rt) == ~rt.name.isNone

\* the <type> tag validates: name is required, context is one of the Literal
TypeIsValid(rt) == ~rt.name.isNone /\ rt.context \in RecognizedContexts

\* the entries of ValidationError.errors() that one <type> tag gives
ErrorsOf(rt) ==
    (IF rt.name.isNone THEN <<Diag("Field required")>> ELSE <<>>)
    \o (IF rt.context \in RecognizedContexts THEN <<>>
        ELSE <<Diag("Input should be one of the contexts")>>)

RECURSIVE Errors(_)
Errors(types) ==
    IF types = <<>> THEN <<>> ELSE ErrorsOf(Head(types)) \o Errors(Tail(types))

\* the model Type built from a valid <type> tag
TypeFromXml(rt) ==
    [name |-> rt.name.s, context |-> rt.context, description |-> rt.description,
     elements |-> rt.elements]

\* open() and FramscriptDoc.from_xml: the document, or the exception raised
parse_framscript_xml(inp) ==
    IF inp.file = "missing"
    THEN [exc |-> "FileNotFoundError", doc |-> [types |-> <<>>]]
    ELSE IF inp.file = "malformed"
    THEN [exc |-> "ParseError", doc |-> [types |-> <<>>]]
    ELSE IF \E i \in 1..Len(inp.types) : ~TypeIsValid(inp.types[i])
    THEN [exc |-> "ValidationError", doc |-> [types |-> <<>>]]
    ELSE [exc |-> "",
          doc |-> [types |-> [i \in 1..Len(inp.types) |-> TypeFromXml(inp.types[i])]]]

\* how "ruff --version" and "ruff format -" can end; the second is run only
\* when the first succeeds
RuffOutcomes ==
    { [probe |-> p, format |-> ""] :
        p \in {"FileNotFoundError", "CalledProcessError", "PermissionError"} }
    \cup { [probe |-> "ok", format |-> f] : f \in {"zero", "nonzero", "raises"} }

\* the text ruff writes for code
RuffFormat(code) == [formatted |-> TRUE, lines |-> code]

Original(code) == [formatted |-> FALSE, lines |-> code]

\* format_code_with_ruff(code) when the subprocesses end as outcome says:
\* the exception it lets through, the value returned, and what it prints
format_code_with_ruff(code, outcome) ==
    IF outcome.probe = "FileNotFoundError"
    THEN [exc |-> "", val |-> Original(code),
          out |-> <<Diag("Ruff is not available. Returning the original code.")>>,
          err |-> <<>>]
    ELSE IF outcome.probe = "CalledProcessError"
    THEN [exc |-> "", val |-> Original(code),
          out |-> <<Diag("Error checking Ruff availability")>>, err |-> <<>>]
    ELSE IF outcome.probe # "ok"
    THEN \* no except clause of the first try matches
         [exc |-> outcome.probe, val |-> NoText, out |-> <<>>, err |-> <<>>]
    ELSE IF outcome.format = "zero"
    THEN [exc |-> "", val |-> RuffFormat(code), out |-> <<>>, err |-> <<>>]
    ELSE IF outcome.format = "nonzero"
    THEN [exc |-> "", val |-> Original(code), out |-> <<>>,
          err |-> <<Diag("Ruff formatting failed")>>]
    ELSE [exc |-> "", val |-> Original(code),
          out |-> <<Diag("An error occurred while formatting with Ruff")>>,
          err |-> <<>>]

\* the files the script is run on
UnknownContext == "Unknown context"

FileContexts == Contexts \cup {UnknownContext}

\* functions f: one with no type, one of the opaque type
FileElementPool ==
    { el \in ElementPool :
        el.id = <<"f">> /\ el.function = "true" /\ el.type # Str(K_string) }

MkInput(counts, named, contexts, flat) ==
    [file |-> "ok",
     types |->
        [i \in 1..Len(counts) |->
            [name |-> IF named[i] THEN Str(TypeName(i)) ELSE None,
             context |-> contexts[i],
             description |-> Str(<<>>),
             elements |->
                 LET before == Sum(SubSeq(counts, 1, i - 1))
                 IN  [j \in 1..counts[i] |-> flat[before + j]]]]]

InitMain ==
    /\ \/ \E counts \in Shapes :
            \E named \in [1..Len(counts) -> BOOLEAN] :
              \E contexts \in [1..Len(counts) -> FileContexts] :
                \E flat \in [1..Sum(counts) -> FileElementPool] :
                  input = MkInput(counts, named, contexts, flat)
       \/ \E f \in {"missing", "malformed"} : input = [file |-> f, types |-> <<>>]
    /\ mpc = "load"
    /\ loaded = FALSE
    /\ buf_fmt = NoText
    /\ ruff = NoRuff
    /\ stdout = <<>>
    /\ stderr = <<>>
    /\ status = 0
    /\ doc = [types |-> <<>>]
    /\ pc = "idle"
    /\ ti = 1
    /\ ei = 1
    /\ buf = <<>>
    /\ duplicate_elements = {}
    /\ ret_type_comment = Unbound
    /\ exc = ""
    /\ call = NoCall
    /\ ret = NoRet
    /\ grg = NoFrame

\* doc = parse_framscript_xml(filename), and entering the with block
MainLoad ==
    /\ mpc = "load"
    /\ LET r == parse_framscript_xml(input)
       IN  IF r.exc = ""
           THEN /\ doc' = r.doc
                /\ loaded' = TRUE
                /\ mpc' = "emit"
                /\ pc' = "header"
                /\ UNCHANGED exc
           ELSE /\ exc' = r.exc
                /\ mpc' = "raised"
                /\ UNCHANGED <<doc, loaded, pc>>
    /\ UNCHANGED <<ti, ei, buf, duplicate_elements, ret_type_comment, call, ret,
                   input, buf_fmt, ruff, stdout, stderr, status, grg>>

\* buf_fmt = format_code_with_ruff(buf.getvalue()), after the emitter returned
MainFormat ==
    /\ mpc = "emit"
    /\ pc = "done"
    /\ \E outcome \in RuffOutcomes :
         LET r == format_code_with_ruff(buf, outcome)
         IN  /\ ruff' = outcome
             /\ stdout' = stdout \o r.out
             /\ stderr' = stderr \o r.err
             /\ exc' = r.exc
             /\ IF r.exc = ""
                THEN buf_fmt' = r.val /\ mpc' = "print"
                ELSE buf_fmt' = buf_fmt /\ mpc' = "raised"
    /\ UNCHANGED <<doc, pc, ti, ei, buf, duplicate_elements, ret_type_comment, call, ret, input, loaded, status, grg>>

\* print(buf_fmt); the script ends
MainPrint ==
    /\ mpc = "print"
    /\ stdout' = Append(stdout, StubItem(buf_fmt))
    /\ mpc' = "exited"
    /\ status' = 0
    /\ UNCHANGED <<emitVars, call, ret, input, loaded, buf_fmt, ruff, stderr, grg>>

\* an exception is on its way out of the try block
Raised == mpc = "raised" \/ (mpc = "emit" /\ pc = "failed")

\* except pydantic_core.ValidationError; the script ends
MainExceptValidationError ==
    /\ Raised
    /\ exc = "ValidationError"
    /\ stderr' = Append(stderr, Diag("traceback"))
    /\ stdout' = stdout \o <<Diag("----")>> \o Errors(input.types)
    /\ mpc' = "exited"
    /\ status' = 0
    /\ UNCHANGED <<emitVars, call, ret, input, loaded, buf_fmt, ruff, grg>>

\* mutant: the handler also writes what the emitter had printed
ExceptionReport_WithBuf ==
    <<StubItem(Original(buf)), Diag("type(e)"), Diag("Error: e")>>

\* what the handler of Exception prints to standard output
ExceptionReport == <<Diag("type(e)"), Diag("Error: e")>>

\* except Exception; the script ends
MainExceptException ==
    /\ Raised
    /\ exc # "ValidationError"
    /\ stdout' = stdout \o ExceptionReport
    /\ stderr' = Append(stderr, Diag("traceback"))
    /\ mpc' = "exited"
    /\ status' = 0
    /\ UNCHANGED <<emitVars, call, ret, input, loaded, buf_fmt, ruff, grg>>

NextMain ==
    \/ MainLoad
    \/ WriteHeader \/ SkipType \/ BeginType \/ EmitElement \/ EndType \/ Return
    \/ MainFormat
    \/ MainPrint
    \/ MainExceptValidationError
    \/ MainExceptException

SpecMain == InitMain /\ [][NextMain]_vars

(***************************************************************************)
(* The emitter run on one type whose description and whose elements'        *)
(* deprecated flags and descriptions vary.                                  *)
(***************************************************************************)
TypeDescriptions == {None, Str(<<>>), Str(<<"d">>)}

\* functions and fields f and g of type string
TypeElementPool ==
    { [id |-> id, name |-> None, type |-> Str(K_string), function |-> function,
       deprecated |-> deprecated, description |-> description,
       arguments |-> <<>>] :
        id \in {<<"f">>, <<"g">>},
        function \in {"true", "false"},
        deprecated \in {"true", "false"},
        description \in {Str(<<>>), Str(<<"d">>)} }

InitType ==
    /\ \E context \in Contexts :
         \E description \in TypeDescriptions :
           \E n \in 0..MaxElems :
             \E elements \in [1..n -> TypeElementPool] :
               doc = [types |-> << [name |-> TypeName(1),
                                    context |-> context,
                                    description |-> description,
                                    elements |-> elements] >>]
    /\ pc = "header"
    /\ ti = 1
    /\ ei = 1
    /\ buf = <<>>
    /\ duplicate_elements = {}
    /\ ret_type_comment = Unbound
    /\ exc = ""
    /\ call = NoCall
    /\ ret = NoRet
    /\ MainIdle
    /\ grg = NoFrame

SpecType == InitType /\ [][Next]_vars

(***************************************************************************)
(* FramsticksLib.getRandomGenotype.  A genotype is known by what the        *)
(* simulator says of it: whether isValidCreature holds, and the numbers of  *)
(* parts and neurons of its Model.  mutate may return any genotype.         *)
(***************************************************************************)
MaxCount == 1   \* parts, and neurons, of a genotype and of a requested range
MaxIter == 4    \* iter_max

Genotypes ==
    {GENOTYPE_INVALID}
        \cup [valid : {TRUE}, numparts : 0..MaxCount, numneurons : 0..MaxCount]

NoDiff == [isNone |-> TRUE, n |-> 0]

AbsDiff(a, b) == IF a >= b THEN a - b ELSE b - a

\* mutant: the validity of g is not tested
estimate_diff_Unchecked(g) ==
    [diff |-> [isNone |-> FALSE,
               n |-> AbsDiff(grg.target_parts, g.numparts)
                       + AbsDiff(grg.target_neurons, g.numneurons)],
     in_target_range |->
          /\ grg.parts_min <= g.numparts /\ g.numparts <= grg.parts_max
          /\ grg.neurons_min <= g.numneurons /\ g.numneurons <= grg.neurons_max]

\* the inner function estimate_diff: (None, None) for an invalid genotype
estimate_diff(g) ==
    IF ~g.valid
    THEN [diff |-> NoDiff, in_target_range |-> FALSE]
    ELSE [diff |-> [isNone |-> FALSE,
                    n |-> AbsDiff(grg.target_parts, g.numparts)
                            + AbsDiff(grg.target_neurons, g.numneurons)],
          in_target_range |->
              /\ grg.parts_min <= g.numparts /\ g.numparts <= grg.parts_max
              /\ grg.neurons_min <= g.numneurons /\ g.numneurons <= grg.neurons_max]

InitGrg ==
    /\ \E initial_genotype \in Genotypes :
         \E parts_min, parts_max, neurons_min, neurons_max \in 0..MaxCount :
           \E iter_max \in 0..MaxIter :
             \E return_even_if_failed \in BOOLEAN :
               grg = [NoFrame EXCEPT
                        !.pc = "start",
                        !.initial_genotype = initial_genotype,
                        !.parts_min = parts_min,
                        !.parts_max = parts_max,
                        !.neurons_min = neurons_min,
                        !.neurons_max = neurons_max,
                        !.iter_max = iter_max,
                        !.return_even_if_failed = return_even_if_failed]
    /\ doc = [types |-> <<>>]
    /\ pc = "idle"
    /\ ti = 1
    /\ ei = 1
    /\ buf = <<>>
    /\ duplicate_elements = {}
    /\ ret_type_comment = Unbound
    /\ exc = ""
    /\ call = NoCall
    /\ ret = NoRet
    /\ MainIdle

GrgStep(frame) == grg' = frame /\ UNCHANGED <<emitVars, call, ret, mainVars>>

\* the two targets are drawn and the initial genotype is tested
GrgStart ==
    /\ grg.pc = "start"
    /\ IF grg.parts_min > grg.parts_max \/ grg.neurons_min > grg.neurons_max
       THEN \* Generator.integers: low >= high
            GrgStep([grg EXCEPT !.pc = "raised", !.exc = "ValueError"])
       ELSE \E tp \in grg.parts_min..grg.parts_max :
              \E tn \in grg.neurons_min..grg.neurons_max :
                IF ~grg.initial_genotype.valid
                THEN GrgStep([grg EXCEPT !.pc = "raised", !.exc = "ValueError",
                                         !.target_parts = tp,
                                         !.target_neurons = tn])
                ELSE GrgStep([grg EXCEPT !.pc = "undirected",
                                         !.target_parts = tp,
                                         !.target_neurons = tn,
                                         !.g = grg.initial_genotype,
                                         !.i = 0])

\* one pass of the first loop: a mutant is kept when it is valid
GrgUndirected ==
    /\ grg.pc = "undirected"
    /\ grg.i < grg.iter_max \div 2
    /\ \E g_new \in Genotypes :
         GrgStep([grg EXCEPT !.g = IF g_new.valid THEN g_new ELSE grg.g,
                             !.i = grg.i + 1])

\* best_diff, best_in_target_range = estimate_diff(g)
GrgEstimate ==
    /\ grg.pc = "undirected"
    /\ grg.i >= grg.iter_max \div 2
    /\ LET r == estimate_diff(grg.g)
       IN  GrgStep([grg EXCEPT !.pc = "directed",
                               !.i = 0,
                               !.best_diff = r.diff,
                               !.best_in_target_range = r.in_target_range])

\* one pass of the second loop: a mutant is kept when it is valid and not
\* farther from the targets
GrgDirected ==
    /\ grg.pc = "directed"
    /\ grg.i < grg.iter_max \div 2
    /\ \E g_new \in Genotypes :
         LET r == estimate_diff(g_new)
         IN  IF r.diff.isNone
             THEN GrgStep([grg EXCEPT !.i = grg.i + 1])
             ELSE IF grg.best_diff.isNone
             THEN \* int <= None
                  GrgStep([grg EXCEPT !.pc = "raised", !.exc = "TypeError"])
             ELSE IF r.diff.n <= grg.best_diff.n
             THEN GrgStep([grg EXCEPT !.g = g_new,
                                      !.best_diff = r.diff,
                                      !.best_in_target_range = r.in_target_range,
                                      !.i = grg.i + 1])
             ELSE GrgStep([grg EXCEPT !.i = grg.i + 1])

\* the return statements
GrgReturn ==
    /\ grg.pc = "directed"
    /\ grg.i >= grg.iter_max \div 2
    /\ GrgStep([grg EXCEPT
                  !.pc = "returned",
                  !.result = IF grg.best_in_target_range \/ grg.return_even_if_failed
                             THEN [isNone |-> FALSE, g |-> grg.g]
                             ELSE [isNone |-> TRUE, g |-> GENOTYPE_INVALID]])

NextGrg == GrgStart \/ GrgUndirected \/ GrgEstimate \/ GrgDirected \/ GrgReturn

SpecGrg == InitGrg /\ [][NextGrg]_vars

(***************************************************************************)
(* The emitter run on one type whose elements vary in name, description and *)
(* type.                                                                    *)
(***************************************************************************)
\* names of an element whose id is f: the id in another case, the id
\* followed by " object" in another case, and another word
ElementNames ==
    { None, Str(<<"F">>), Str(<<"F", " ", "O", "b", "j", "e", "c", "t">>),
      Str(<<"n">>) }

NamedElementPool ==
    { [id |-> <<"f">>, name |-> name, type |-> Str(K_string),
       function |-> function, deprecated |-> "false",
       description |-> description, arguments |-> <<>>] :
        name \in ElementNames,
        function \in {"true", "false"},
        description \in {Str(<<>>), Str(<<"d">>)} }
    \cup
    { [id |-> <<"d", "e", "f">>, name |-> None, type |-> None,
       function |-> "false", deprecated |-> "false",
       description |-> Str(<<>>), arguments |-> <<>>],
      [id |-> <<"f">>, name |-> None, type |-> Str(OpaqueType),
       function |-> "false", deprecated |-> "false",
       description |-> Str(<<SP>>), arguments |-> <<>>],
      [id |-> <<"f">>, name |-> None, type |-> Str(K_untyped),
       function |-> "false", deprecated |-> "false",
       description |-> None, arguments |-> <<>>],
      [id |-> <<"f">>, name |-> Str(<<>>), type |-> Str(K_string),
       function |-> "true", deprecated |-> "false",
       description |-> Str(<<"d">>), arguments |-> <<>>] }

InitElement ==
    /\ \E context \in Contexts :
         \E n \in 0..MaxElems :
           \E elements \in [1..n -> NamedElementPool] :
             doc = [types |-> << [name |-> TypeName(1),
                                  context |-> context,
                                  description |-> Str(<<>>),
                                  elements |-> elements] >>]
    /\ pc = "header"
    /\ ti = 1
    /\ ei = 1
    /\ buf = <<>>
    /\ duplicate_elements = {}
    /\ ret_type_comment = Unbound
    /\ exc = ""
    /\ call = NoCall
    /\ ret = NoRet
    /\ MainIdle
    /\ grg = NoFrame

SpecElement == InitElement /\ [][Next]_vars

(***************************************************************************)
(* The script run on a file of one type whose functions take an argument    *)
(* with or without a description.                                           *)
(***************************************************************************)
\* <argument> tags: description is an optional child, any text
DescribedArgs ==
    { [name |-> Str(<<"x">>), type |-> Str(K_string), description |-> description] :
        description \in {None, Str(<<>>), Str(<<"d">>)} }

\* functions f of the opaque type, of no argument or of one
ArgElementPool ==
    { [id |-> <<"f">>, name |-> None, type |-> Str(OpaqueType),
       function |-> "true", deprecated |-> "false",
       description |-> Str(<<>>), arguments |-> arguments] :
        arguments \in {<<>>} \cup { <<a>> : a \in DescribedArgs } }

InitArgs ==
    /\ \E named \in BOOLEAN :
         \E context \in FileContexts :
           \E n \in 0..MaxElems :
             \E flat \in [1..n -> ArgElementPool] :
               input = MkInput(<<n>>, <<named>>, <<context>>, flat)
    /\ mpc = "load"
    /\ loaded = FALSE
    /\ buf_fmt = NoText
    /\ ruff = NoRuff
    /\ stdout = <<>>
    /\ stderr = <<>>
    /\ status = 0
    /\ doc = [types |-> <<>>]
    /\ pc = "idle"
    /\ ti = 1
    /\ ei = 1
    /\ buf = <<>>
    /\ duplicate_elements = {}
    /\ ret_type_comment = Unbound
    /\ exc = ""
    /\ call = NoCall
    /\ ret = NoRet
    /\ grg = NoFrame

SpecArgs == InitArgs /\ [][NextMain]_vars

(***************************************************************************)
(* What the properties below read off a run of the emitter.                *)
(***************************************************************************)
\* how many elements of the t-th type the loop body has completed
Processed(t) ==
    IF doc.types[t].context # "Global context" THEN 0
    ELSE IF pc = "header" THEN 0
    ELSE IF t < ti THEN Len(doc.types[t].elements)
    ELSE IF t = ti /\ pc \in {"elements", "failed"} THEN ei - 1
    ELSE 0

\* whether the loop over the types has reached the t-th type
Begun(t) ==
    /\ pc # "header"
    /\ \/ t < ti
       \/ t = ti /\ pc \in {"elements", "failed"}

RECURSIVE RefsFrom(_)
\* <<t, e>> for every completed element, in document order
RefsFrom(t) ==
    IF t > Len(doc.types) THEN <<>>
    ELSE [e \in 1..Processed(t) |-> <<t, e>>] \o RefsFrom(t + 1)

Refs == RefsFrom(1)

ElementAt(ref) == doc.types[ref[1]].elements[ref[2]]

RECURSIVE IndicesOfKind(_, _)
\* the positions in buf, from i on, of the lines whose kind is in kinds
IndicesOfKind(kinds, i) ==
    IF i > Len(buf) THEN <<>>
    ELSE (IF buf[i].kind \in kinds THEN <<i>> ELSE <<>>)
             \o IndicesOfKind(kinds, i + 1)

\* the positions of the declarations: signatures and fields
DeclIdx == IndicesOfKind({"def", "field"}, 1)

\* whether element e of type t shares its id with another element of t
HasTwin(ref) ==
    \E k \in 1..Len(doc.types[ref[1]].elements) :
        k # ref[2] /\ doc.types[ref[1]].elements[k].id = ElementAt(ref).id

\* whether the declaration at position i of buf carries an overload marker
Marked(i) ==
    \/ i > 1 /\ buf[i - 1].kind = "@overload"
    \/ i > 2 /\ buf[i - 1].kind = "@staticmethod" /\ buf[i - 2].kind = "@overload"

IsPrefix(p, t) == Len(p) <= Len(t) /\ SubSeq(t, 1, Len(p)) = p

(***************************************************************************)
(* C1.  The class declarations written are exactly the names of the input  *)
(* types whose context is "Global context", in input order (at every       *)
(* moment: of those the loop has reached), and passing over a type of any  *)
(* other context writes no line.                                           *)
(***************************************************************************)
RECURSIVE GlobalNamesFrom(_)
GlobalNamesFrom(t) ==
    IF t > Len(doc.types) THEN <<>>
    ELSE (IF Begun(t) /\ doc.types[t].context = "Global context"
          THEN <<doc.types[t].name>> ELSE <<>>) \o GlobalNamesFrom(t + 1)

ClassNames ==
    LET idx == IndicesOfKind({"class"}, 1)
    IN  [k \in 1..Len(idx) |-> buf[idx[k]].text]

C1_ClassLinesAreGlobalTypes ==
    /\ [](ClassNames = GlobalNamesFrom(1))
    /\ [][(pc = "types" /\ ti <= Len(doc.types)
             /\ doc.types[ti].context # "Global context") => buf' = buf]_vars

C1_Witness ==
    /\ pc = "done"
    /\ Len(doc.types) = 2
    /\ doc.types[1].context = "expdef file"
    /\ doc.types[1].elements # <<>>
    /\ doc.types[2].context = "Global context"
    /\ ClassNames = <<doc.types[2].name>>

(***************************************************************************)
(* C2.  The declarations written are, one for one and in order, the        *)
(* elements the loop has completed: a signature for a function and a       *)
(* field line for a field, each bearing the id of its element; when the    *)
(* emitter returns, every element of every emitted type has its own        *)
(* declaration.                                                            *)
(***************************************************************************)
C2_DeclarationsFollowElements ==
    LET refs == Refs
        idx == DeclIdx
    IN  /\ Len(idx) = Len(refs)
        /\ \A k \in 1..Len(refs) :
              LET el == ElementAt(refs[k])
                  line == buf[idx[k]]
              IN  /\ line.kind = IF el.function = "true" THEN "def" ELSE "field"
                  /\ IsPrefix(el.id, line.text)
                  /\ Len(line.text) <= Len(el.id) + 1
        /\ pc = "done" =>
              \A t \in 1..Len(doc.types) :
                  doc.types[t].context = "Global context"
                      => Processed(t) = Len(doc.types[t].elements)

C2_Witness ==
    /\ pc = "done"
    /\ \E t \in 1..Len(doc.types) :
          /\ doc.types[t].context = "Global context"
          /\ Len(doc.types[t].elements) = 2
          /\ doc.types[t].elements[1].id = doc.types[t].elements[2].id
          /\ doc.types[t].elements[1].function = "false"
          /\ doc.types[t].elements[2].function = "true"
    /\ Len(DeclIdx) = 2

(***************************************************************************)
(* C3 as stated: every declaration, of a function or of a field, carries   *)
(* an overload marker iff another element of the same type has its id.     *)
(***************************************************************************)
C3_Original ==
    LET refs == Refs
        idx == DeclIdx
    IN  \A k \in 1..Len(refs) :
            k <= Len(idx) => (Marked(idx[k]) <=> HasTwin(refs[k]))

(***************************************************************************)
(* C3 amended: the signature of a function carries an overload marker iff  *)
(* another element (function or field) of the same type has its id; a      *)
(* field never carries one; the elements of other types do not count.      *)
(***************************************************************************)
C3_OverloadOnFunctionsOnly ==
    LET refs == Refs
        idx == DeclIdx
    IN  \A k \in 1..Len(refs) :
            k <= Len(idx) =>
                (Marked(idx[k])
                    <=> (ElementAt(refs[k]).function = "true" /\ HasTwin(refs[k])))

C3_Witness ==
    /\ pc = "done"
    /\ Len(Refs) = 2
    /\ Refs[1][1] = Refs[2][1]
    /\ HasTwin(Refs[1])
    /\ ElementAt(Refs[1]).function = "true"
    /\ ElementAt(Refs[2]).function = "false"
    /\ Len(DeclIdx) = 2
    /\ Marked(DeclIdx[1])
    /\ ~Marked(DeclIdx[2])

(***************************************************************************)
(* C10 as stated: a signature carries a return arrow only if its element   *)
(* declares a type, and a trailing comment only if the type mapper reports *)
(* one for that element's own type; and no function element makes the      *)
(* emitter fail for want of a declared type.                               *)
(***************************************************************************)
PrimitiveTypeNames == {K_string, K_float, K_integer, K_void}

C10_Original ==
    LET refs == Refs
        idx == DeclIdx
    IN  /\ exc # "UnboundLocalError"
        /\ \A k \in 1..Len(refs) :
              k <= Len(idx) =>
                  LET el == ElementAt(refs[k])
                      line == buf[idx[k]]
                  IN  line.kind = "def" =>
                          /\ line.type # <<>> => ~el.type.isNone
                          /\ line.comment # <<>> =>
                                 /\ ~el.type.isNone
                                 /\ el.type.s \notin PrimitiveTypeNames

(***************************************************************************)
(* What the properties below read off a call of a pure helper.             *)
(***************************************************************************)
Returned(fn) == call.fn = fn /\ ret.done

\* the text up to its first line break
FirstLine(t) ==
    IF \E i \in 1..Len(t) : t[i] = NL
    THEN SubSeq(t, 1, (CHOOSE i \in 1..Len(t) :
                           t[i] = NL /\ \A j \in 1..(i - 1) : t[j] # NL) - 1)
    ELSE t

IsBlank(t) == \A i \in 1..Len(t) : t[i] \in {SP, NL}

\* a line break between two characters that trimming keeps
IsMultiLine(t) ==
    \E i, j, k \in 1..Len(t) :
        i < j /\ j < k /\ t[i] \notin {SP, NL} /\ t[j] = NL /\ t[k] \notin {SP, NL}

(***************************************************************************)
(* C4.  format_as_python_type_extvalue returns, for every type name, a     *)
(* non-empty type expression: ExtValue[str], ExtValue[float],              *)
(* ExtValue[int], ExtValue[None] with an empty comment for string, float,  *)
(* integer, void, and for every other name, "untyped" among them, the      *)
(* bare ExtValue with the name itself as the comment.                      *)
(***************************************************************************)
C4_TypeMapperTotal ==
    (Returned("format_as_python_type_extvalue") /\ ~call.opt.isNone) =>
        LET n == call.opt.s
            wrap(py) == [type |-> <<"E", "x", "t", "V", "a", "l", "u", "e", "[">>
                                      \o py \o <<"]">>,
                         comment |-> Str(<<>>)]
        IN  /\ ret.val.type # <<>>
            /\ n = <<"s", "t", "r", "i", "n", "g">> => ret.val = wrap(<<"s", "t", "r">>)
            /\ n = <<"f", "l", "o", "a", "t">> => ret.val = wrap(<<"f", "l", "o", "a", "t">>)
            /\ n = <<"i", "n", "t", "e", "g", "e", "r">> => ret.val = wrap(<<"i", "n", "t">>)
            /\ n = <<"v", "o", "i", "d">> => ret.val = wrap(<<"N", "o", "n", "e">>)
            /\ n \notin PrimitiveTypeNames =>
                   ret.val = [type |-> <<"E", "x", "t", "V", "a", "l", "u", "e">>,
                              comment |-> Str(n)]

C4_Witness ==
    /\ Returned("format_as_python_type_extvalue")
    /\ call.opt = Str(<<"u", "n", "t", "y", "p", "e", "d">>)
    /\ ret.val.comment = call.opt
    /\ ret.val.type = T_ExtValue

(***************************************************************************)
(* C5.  format_description_as_docstring chooses its form by the text: "" *)
(* for a text that is empty after trimming; one line holding a quoted      *)
(* literal for a single-line text with no backslash; a block opened by the *)
(* raw delimiter for every text holding a backslash, of one line or of     *)
(* several; a block opened by the plain delimiter for a text of several    *)
(* lines with no backslash.                                                *)
(***************************************************************************)
C5_DocstringForm ==
    Returned("format_description_as_docstring") =>
        LET t == call.text
            r == ret.val
            n == call.indent
        IN  /\ IsBlank(t) => r = <<>>
            /\ (~IsBlank(t) /\ ~IsMultiLine(t) /\ ~Contains(t, BS)) =>
                   /\ ~Contains(r, NL)
                   /\ Len(r) >= n + 2
                   /\ \A i \in 1..n : r[i] = SP
                   /\ r[n + 1] \in {SQ, DQ}
                   /\ r[Len(r)] = r[n + 1]
            /\ Contains(t, BS) =>
                   /\ Contains(r, NL)
                   /\ FirstLine(r) = Spaces(n) \o <<"r", DQ, DQ, DQ>>
            /\ (IsMultiLine(t) /\ ~Contains(t, BS)) =>
                   /\ Contains(r, NL)
                   /\ FirstLine(r) = Spaces(n) \o <<DQ, DQ, DQ>>

C5_Witness ==
    /\ Returned("format_description_as_docstring")
    /\ call.text = <<"a", BS>>
    /\ call.indent = 4
    /\ ret.val = <<SP, SP, SP, SP, "r", DQ, DQ, DQ, NL,
                   SP, SP, SP, SP, "a", BS, NL,
                   SP, SP, SP, SP, DQ, DQ, DQ>>

(***************************************************************************)
(* C6.  The identifier written for an id is the id with one underscore     *)
(* appended when the id is import, class, def or as, and the id itself in  *)
(* every other case.                                                       *)
(***************************************************************************)
C6_ReservedWordsGetUnderscore ==
    Returned("id_py") =>
        IF call.text \in { <<"i", "m", "p", "o", "r", "t">>, <<"c", "l", "a", "s", "s">>,
                           <<"d", "e", "f">>, <<"a", "s">> }
        THEN ret.val = call.text \o <<"_">>
        ELSE ret.val = call.text

C6_Witness ==
    /\ Returned("id_py")
    /\ call.text = <<"a", "s">>
    /\ ret.val = <<"a", "s", "_">>

(***************************************************************************)
(* C7 as stated: the argument names written in one signature are pairwise  *)
(* distinct.                                                               *)
(***************************************************************************)
C7_Original ==
    Returned("args") =>
        \A i, j \in 1..Len(ret.val) : i # j => ret.val[i].name # ret.val[j].name

(***************************************************************************)
(* C8 as stated: one entry per declared argument, in declared order; the   *)
(* annotation is the bare mapped name when the type is in the name-only    *)
(* table and otherwise the original type name as a quoted literal.         *)
(***************************************************************************)
BareName(type) ==
    IF type.isNone THEN <<>>
    ELSE IF type.s = <<"s", "t", "r", "i", "n", "g">> THEN <<"s", "t", "r">>
    ELSE IF type.s = <<"f", "l", "o", "a", "t">> THEN <<"f", "l", "o", "a", "t">>
    ELSE IF type.s = <<"i", "n", "t", "e", "g", "e", "r">> THEN <<"i", "n", "t">>
    ELSE IF type.s = <<"v", "o", "i", "d">> THEN <<"N", "o", "n", "e">>
    ELSE IF type.s = <<"u", "n", "t", "y", "p", "e", "d">> THEN <<"A", "n", "y">>
    ELSE <<>>

IsQuoted(ann, name) == ann \in { <<SQ>> \o name \o <<SQ>>, <<DQ>> \o name \o <<DQ>> }

C8_Original ==
    Returned("args") =>
        /\ Len(ret.val) = Len(call.args)
        /\ \A i \in 1..Len(call.args) :
              IF BareName(call.args[i].type) # <<>>
              THEN ret.val[i].ann = BareName(call.args[i].type)
              ELSE /\ ~call.args[i].type.isNone
                   /\ IsQuoted(ret.val[i].ann, call.args[i].type.s)

(***************************************************************************)
(* C8 amended: one entry per declared argument, in declared order; the     *)
(* annotation is the bare mapped name when the type is in the name-only    *)
(* table, the original type name as a quoted literal when the argument     *)
(* declares a type that is not in the table, and the bare None when the    *)
(* argument declares no type.                                              *)
(***************************************************************************)
C8_AnnotationPerArgument ==
    Returned("args") =>
        /\ Len(ret.val) = Len(call.args)
        /\ \A i \in 1..Len(call.args) :
              IF BareName(call.args[i].type) # <<>>
              THEN ret.val[i].ann = BareName(call.args[i].type)
              ELSE IF call.args[i].type.isNone
              THEN ret.val[i].ann = <<"N", "o", "n", "e">>
              ELSE IsQuoted(ret.val[i].ann, call.args[i].type.s)

C8_Witness ==
    /\ Returned("args")
    /\ Len(call.args) = 3
    /\ call.args[1].type = Str(<<"s", "t", "r", "i", "n", "g">>)
    /\ call.args[2].type = Str(OpaqueType)
    /\ call.args[3].type = None
    /\ ret.val[1].ann = <<"s", "t", "r">>
    /\ ret.val[2].ann = <<SQ>> \o OpaqueType \o <<SQ>>
    /\ ret.val[3].ann = <<"N", "o", "n", "e">>

(***************************************************************************)
(* C9 as stated: an argument with no name and type "string" is written as  *)
(* the placeholder _ annotated with the wrapper ExtValue[str].             *)
(***************************************************************************)
IsUnnamedString(arg) ==
    arg.name.isNone /\ arg.type = Str(<<"s", "t", "r", "i", "n", "g">>)

C9_Original ==
    Returned("args") =>
        \A i \in 1..Len(call.args) :
            IsUnnamedString(call.args[i]) =>
                /\ ret.val[i].name = <<"_">>
                /\ ret.val[i].ann = <<"E", "x", "t", "V", "a", "l", "u", "e", "[",
                                      "s", "t", "r", "]">>

(***************************************************************************)
(* C9 amended: an argument with no name and type "string" is annotated     *)
(* with the bare text type str, not with the wrapper; its identifier is    *)
(* the placeholder _, or __2 when an earlier argument of the same list     *)
(* was already written under the name _ (it had no name, an empty name or  *)
(* the name _).                                                            *)
(***************************************************************************)
C9_PlaceholderTypedBare ==
    Returned("args") =>
        \A i \in 1..Len(call.args) :
            IsUnnamedString(call.args[i]) =>
                /\ ret.val[i].ann = <<"s", "t", "r">>
                /\ ret.val[i].name =
                       IF \E j \in 1..(i - 1) :
                              \/ call.args[j].name.isNone
                              \/ call.args[j].name.s \in {<<>>, <<"_">>}
                       THEN <<"_", "_", "2">>
                       ELSE <<"_">>

C9_Witness ==
    /\ Returned("args")
    /\ Len(call.args) = 2
    /\ IsUnnamedString(call.args[1])
    /\ IsUnnamedString(call.args[2])
    /\ ret.val = << [name |-> <<"_">>, ann |-> <<"s", "t", "r">>],
                    [name |-> <<"_", "_", "2">>, ann |-> <<"s", "t", "r">>] >>

(***************************************************************************)
(* What the properties below read off a run of the script.                 *)
(***************************************************************************)
StubWritten == \E k \in DOMAIN stdout : stdout[k].what = "stub"

Exited == mpc = "exited"

\* format_code_with_ruff has been called
FormatterRan == ruff # NoRuff

\* every <type> tag of the file has a name and a recognised context
AllTypesValid ==
    \A i \in DOMAIN input.types :
        /\ ~input.types[i].name.isNone
        /\ input.types[i].context \in RecognizedContexts

(***************************************************************************)
(* C14: whatever the outcome of the external formatter (tool absent, probe  *)
(* launch failure of any kind, probe non-zero exit, format call raising,    *)
(* format non-zero exit), no exception leaves format_code_with_ruff: it     *)
(* returns ruff's output when the format call exits zero and the original   *)
(* text otherwise, and the run goes on to write the stub.                   *)
(***************************************************************************)
C14_Original ==
    FormatterRan =>
        /\ exc = ""
        /\ mpc \in {"print", "exited"}
        /\ buf_fmt = IF ruff.format = "zero" THEN RuffFormat(buf) ELSE Original(buf)
        /\ Exited => StubWritten

(***************************************************************************)
(* C15: on every run that writes the stub, standard output holds the stub   *)
(* text and nothing else; when the formatter was unavailable or failed, its *)
(* diagnostic is on standard error.                                         *)
(***************************************************************************)
C15_Original ==
    (Exited /\ StubWritten) =>
        /\ stdout = <<StubItem(buf_fmt)>>
        /\ ruff.format # "zero" => stderr # <<>>

(***************************************************************************)
(* C16: a run ends with exit status zero only if loading and emission both  *)
(* completed; a run that failed while loading or emitting ends with a       *)
(* non-zero status.                                                         *)
(***************************************************************************)
C16_Original ==
    Exited =>
        /\ status = 0 => (loaded /\ pc = "done")
        /\ (~loaded \/ pc = "failed") => status # 0

(***************************************************************************)
(* C17: no partial stub is ever written: stub text is on standard output    *)
(* only when the document was loaded and the emitter returned, and it is    *)
(* then the whole of what the emitter printed; after a failed load or a     *)
(* failed emission standard output holds no line of the stub.               *)
(***************************************************************************)
C17_NoPartialStub ==
    \A k \in DOMAIN stdout :
        stdout[k].what = "stub" =>
            /\ loaded
            /\ pc = "done"
            /\ stdout[k].lines = buf

\* the emitter failed after printing the header and a class, and the run
\* ended without any stub text on standard output
C17_Witness ==
    /\ Exited
    /\ pc = "failed"
    /\ Len(buf) > Len(HeaderLines)
    /\ ~StubWritten
    /\ stdout # <<>>

(***************************************************************************)
(* C19 (as stated): the loader accepts a type only if its context is one of *)
(* exactly sixteen recognised values and its name is present; otherwise the *)
(* whole load fails and no document, not even a partial one, is returned.   *)
(***************************************************************************)
C19_Original ==
    mpc # "load" =>
        /\ loaded <=> (input.file = "ok" /\ AllTypesValid)
        /\ Cardinality(RecognizedContexts) = 16
        /\ ~loaded => doc = [types |-> <<>>]
        /\ loaded => Len(doc.types) = Len(input.types)

(***************************************************************************)
(* C19 (amended): the loader accepts a type only if its context is one of   *)
(* exactly fifteen recognised values and its name is present; otherwise the *)
(* whole load fails and no document, not even a partial one, is returned.   *)
(***************************************************************************)
C19_LoadAllOrNothing ==
    mpc # "load" =>
        /\ loaded <=> (input.file = "ok" /\ AllTypesValid)
        /\ Cardinality(RecognizedContexts) = 15
        /\ ~loaded => doc = [types |-> <<>>]
        /\ loaded => Len(doc.types) = Len(input.types)

\* a file with a valid type and a type of an unknown context was refused
C19_Witness ==
    /\ Exited
    /\ exc = "ValidationError"
    /\ ~loaded
    /\ \E i, j \in DOMAIN input.types :
          /\ TypeIsValid(input.types[i])
          /\ ~input.types[j].name.isNone
          /\ input.types[j].context = UnknownContext
    /\ doc = [types |-> <<>>]

(***************************************************************************)
(* C11: the lines before the signature of a function element are, in this   *)
(* order: @deprecated if and only if the element is deprecated, then        *)
(* @overload if and only if its id occurs more than once among the elements *)
(* of its own type, then @staticmethod always, and no other decorator; the  *)
(* signatures follow the elements in input order, so two functions sharing  *)
(* an id are both written, each under @overload and @staticmethod.          *)
(***************************************************************************)
DecoratorKinds == {"@deprecated", "@overload", "@staticmethod"}

C11_DecoratorOrder ==
    LET refs == Refs
        idx == DeclIdx
    IN  /\ Len(idx) = Len(refs)
        /\ \A k \in 1..Len(refs) :
              LET el == ElementAt(refs[k])
                  i == idx[k]
                  o == IF HasTwin(refs[k]) THEN 1 ELSE 0
                  d == IF el.deprecated = "true" THEN 1 ELSE 0
              IN  el.function = "true" =>
                    /\ buf[i].kind = "def"
                    /\ IsPrefix(el.id, buf[i].text)
                    /\ buf[i - 1].kind = "@staticmethod"
                    /\ o = 1 => buf[i - 2].kind = "@overload"
                    /\ d = 1 => buf[i - 2 - o].kind = "@deprecated"
                    /\ buf[i - 2 - o - d].kind \notin DecoratorKinds

\* two functions f, the first deprecated: both written, the first under the
\* three decorators in order
C11_Witness ==
    /\ pc = "done"
    /\ Len(doc.types[1].elements) = 2
    /\ \A e \in 1..2 : doc.types[1].elements[e].function = "true"
                       /\ doc.types[1].elements[e].id = <<"f">>
    /\ doc.types[1].elements[1].deprecated = "true"
    /\ doc.types[1].elements[2].deprecated = "false"
    /\ LET idx == IndicesOfKind({"def"}, 1)
       IN  /\ Len(idx) = 2
           /\ buf[idx[1] - 3].kind = "@deprecated"
           /\ buf[idx[1] - 2].kind = "@overload"
           /\ buf[idx[1] - 1].kind = "@staticmethod"
           /\ buf[idx[2] - 2].kind = "@overload"
           /\ buf[idx[2] - 1].kind = "@staticmethod"
           /\ buf[idx[2] - 3].kind = ""

(***************************************************************************)
(* C12: every signature line is followed at once by a body: the docstring   *)
(* line, which is the description indented by eight spaces (indent level 2) *)
(* when the element has a description and is blank when it has none, and    *)
(* then the no-op statement "..."; a signature is never the last line and   *)
(* never followed directly by another declaration.                          *)
(***************************************************************************)
C12_SignatureHasBody ==
    LET refs == Refs
        idx == DeclIdx
    IN  /\ Len(idx) = Len(refs)
        /\ \A k \in 1..Len(refs) :
              LET el == ElementAt(refs[k])
                  i == idx[k]
              IN  buf[i].kind = "def" =>
                    /\ i + 2 <= Len(buf)
                    /\ buf[i + 1].kind = "docstring"
                    /\ buf[i + 2].kind = "..."
                    /\ IF Strip(Descr(el)) # <<>>
                       THEN /\ Len(buf[i + 1].text) > FunctionDocIndent
                            /\ SubSeq(buf[i + 1].text, 1, FunctionDocIndent)
                                   = Spaces(FunctionDocIndent)
                            /\ buf[i + 1].text[FunctionDocIndent + 1] # SP
                       ELSE buf[i + 1].text = <<>>

\* a function with a description and one without, both with a body
C12_Witness ==
    /\ pc = "done"
    /\ Len(doc.types[1].elements) = 2
    /\ \A e \in 1..2 : doc.types[1].elements[e].function = "true"
    /\ doc.types[1].elements[1].description = Str(<<"d">>)
    /\ doc.types[1].elements[2].description = Str(<<>>)
    /\ LET idx == IndicesOfKind({"def"}, 1)
       IN  /\ Len(idx) = 2
           /\ buf[idx[1] + 1].text = Spaces(FunctionDocIndent) \o <<SQ, "d", SQ>>
           /\ buf[idx[1] + 2].kind = "..."
           /\ buf[idx[2] + 1].text = <<>>
           /\ buf[idx[2] + 2].kind = "..."

(***************************************************************************)
(* C13: under the class line of every emitted type comes its documentation: *)
(* the placeholder notice when the description of the type is absent or     *)
(* empty, and the docstring indented by four spaces (indent level 1) when   *)
(* it is not empty.                                                         *)
(***************************************************************************)
C13_Original ==
    \A i \in DOMAIN buf :
        buf[i].kind = "class" =>
            LET type == doc.types[1]
            IN  /\ i + 1 <= Len(buf)
                /\ IF type.description.isNone \/ type.description.s = <<>>
                   THEN buf[i + 1].kind = "(missing docstring?)"
                   ELSE /\ buf[i + 1].kind = "docstring"
                        /\ Len(buf[i + 1].text) > DefaultIndent
                        /\ SubSeq(buf[i + 1].text, 1, DefaultIndent)
                               = Spaces(DefaultIndent)
                        /\ buf[i + 1].text[DefaultIndent + 1] # SP

(***************************************************************************)
(* C18: emission is a function of the document, and what is written for a   *)
(* type depends on that type alone: when the emitter returns, the buffer is *)
(* the header followed, for each Global-context type in order, by the lines *)
(* the emitter writes for that type when nothing was emitted before it.     *)
(***************************************************************************)
RECURSIVE ElementsAlone(_, _, _)
\* the lines of the elements of one type, from the value rtc of
\* ret_type_comment on, up to the element that raises
ElementsAlone(elements, dups, rtc) ==
    IF elements = <<>> THEN <<>>
    ELSE LET r == ElementLines(Head(elements), dups, rtc)
         IN  r.lines \o (IF r.exc = "" THEN ElementsAlone(Tail(elements), dups, r.rtc)
                         ELSE <<>>)

\* the lines of one type when ret_type_comment is still unbound
TypeAlone(type) ==
    << ClassLine(type.name),
       DocstringLine(format_description_as_docstring(type.description.s,
                                                     DefaultIndent)),
       Fixed("") >>
    \o ElementsAlone(type.elements, DuplicateElements(type.elements), Unbound)
    \o <<Fixed("")>>

RECURSIVE TypesAlone(_)
TypesAlone(t) ==
    IF t > Len(doc.types) THEN <<>>
    ELSE (IF IsSkipped(doc.types[t]) THEN <<>> ELSE TypeAlone(doc.types[t]))
             \o TypesAlone(t + 1)

C18_Original == pc = "done" => buf = HeaderLines \o TypesAlone(1)

(***************************************************************************)
(* C20: for a valid initial genotype, any iter_max and any mutants (valid   *)
(* or not), getRandomGenotype returns None or a valid genotype; it returns  *)
(* None only when return_even_if_failed is False and the genotype it ended  *)
(* with is outside the requested ranges of parts or neurons; and when       *)
(* return_even_if_failed is False a genotype returned is within both.       *)
(***************************************************************************)
InRanges(g) ==
    /\ grg.parts_min <= g.numparts /\ g.numparts <= grg.parts_max
    /\ grg.neurons_min <= g.numneurons /\ g.numneurons <= grg.neurons_max

C20_RandomGenotypeResult ==
    /\ (grg.pc \notin {"idle", "start"} /\ grg.initial_genotype.valid
          /\ grg.parts_min <= grg.parts_max /\ grg.neurons_min <= grg.neurons_max)
         => grg.pc # "raised" /\ grg.g.valid
    /\ grg.pc = "returned" =>
         /\ grg.result.isNone \/ grg.result.g.valid
         /\ grg.result.isNone =>
               ~grg.return_even_if_failed /\ ~InRanges(grg.g)
         /\ (~grg.return_even_if_failed /\ ~grg.result.isNone) =>
               InRanges(grg.result.g)

\* from an initial genotype outside the ranges, a genotype within them was
\* found and returned
C20_Witness ==
    /\ grg.pc = "returned"
    /\ ~grg.return_even_if_failed
    /\ ~InRanges(grg.initial_genotype)
    /\ ~grg.result.isNone
    /\ grg.result.g.valid
    /\ InRanges(grg.result.g)

(***************************************************************************)
(* C21: for every field element the emitter writes the line                 *)
(* "<legalized id>: <mapped wrapper type>", with the comment "  # <type>"   *)
(* exactly when the type mapper reported the original type name, followed   *)
(* by the docstring formatted at four spaces (indent level 1) if and only   *)
(* if the description of the element, with its name before it where that    *)
(* applies, is not empty; no decorator comes before the line and no "..."   *)
(* body after it.                                                           *)
(***************************************************************************)
C21_FieldDeclaration ==
    LET refs == Refs
        idx == DeclIdx
    IN  /\ Len(idx) = Len(refs)
        /\ \A k \in 1..Len(refs) :
              LET el == ElementAt(refs[k])
                  i == idx[k]
                  t == format_as_python_type_extvalue(el.type)
                  documented == i < Len(buf) /\ buf[i + 1].kind = "docstring"
                  after == IF documented THEN i + 2 ELSE i + 1
              IN  el.function # "true" =>
                    /\ buf[i].kind = "field"
                    /\ buf[i].text = IF el.id \in INVALID_PY_IDENTS
                                     THEN el.id \o <<"_">> ELSE el.id
                    /\ buf[i].type = t.type
                    /\ buf[i].comment =
                           IF t.comment.isNone \/ t.comment.s = <<>> THEN <<>>
                           ELSE <<SP, SP, "#", SP>> \o el.type.s
                    /\ documented <=> Descr(el) # <<>>
                    /\ (documented /\ Strip(Descr(el)) # <<>>) =>
                           /\ Len(buf[i + 1].text) > DefaultIndent
                           /\ SubSeq(buf[i + 1].text, 1, DefaultIndent)
                                  = Spaces(DefaultIndent)
                           /\ buf[i + 1].text[DefaultIndent + 1] # SP
                    /\ buf[i - 1].kind \notin DecoratorKinds
                    /\ after <= Len(buf) => buf[after].kind # "..."

\* a field of an opaque type, written with the comment, and a documented
\* field of a mapped type, written without it
C21_Witness ==
    /\ pc = "done"
    /\ Len(doc.types[1].elements) = 2
    /\ LET idx == IndicesOfKind({"field"}, 1)
       IN  /\ Len(idx) = 2
           /\ buf[idx[1]].text = <<"f">>
           /\ buf[idx[1]].type = T_ExtValue
           /\ buf[idx[1]].comment = <<SP, SP, "#", SP, "X">>
           /\ buf[idx[2]].type = T_ExtValue \o <<"[", "s", "t", "r", "]">>
           /\ buf[idx[2]].comment = <<>>
           /\ buf[idx[2] + 1].text = Spaces(DefaultIndent) \o <<SQ, "d", SQ>>

(***************************************************************************)
(* C22: the docstring of an element is formatted from its name, an empty    *)
(* line and its description if and only if the name is present, differs     *)
(* from the id when both are lowered, and differs from the lowered id       *)
(* followed by " object"; in every other case it is formatted from the      *)
(* description alone.                                                       *)
(***************************************************************************)
NameIsPrepended(el) ==
    /\ ~el.name.isNone
    /\ Lower(el.name.s) # Lower(el.id)
    /\ Lower(el.name.s) # Lower(el.id) \o <<SP, "o", "b", "j", "e", "c", "t">>

\* the text the docstring of el is to be formatted from
DocumentedText(el) ==
    LET description == IF el.description.isNone THEN <<>> ELSE el.description.s
    IN  IF NameIsPrepended(el) THEN el.name.s \o <<NL, NL>> \o description
        ELSE description

C22_NamePrepended ==
    LET refs == Refs
        idx == DeclIdx
    IN  /\ Len(idx) = Len(refs)
        /\ \A k \in 1..Len(refs) :
              LET el == ElementAt(refs[k])
                  i == idx[k]
                  text == DocumentedText(el)
                  documented == i < Len(buf) /\ buf[i + 1].kind = "docstring"
              IN  IF el.function = "true"
                  THEN /\ documented
                       /\ buf[i + 1].text =
                              format_description_as_docstring(text, FunctionDocIndent)
                  ELSE /\ documented <=> text # <<>>
                       /\ documented =>
                              buf[i + 1].text =
                                  format_description_as_docstring(text, DefaultIndent)

\* a function whose name is its id and " object" in another case, documented
\* by its description alone, and a field of another name, documented by
\* the name and the description
C22_Witness ==
    /\ pc = "done"
    /\ Len(doc.types[1].elements) = 2
    /\ doc.types[1].elements[1].name = Str(<<"F", " ", "O", "b", "j", "e", "c", "t">>)
    /\ doc.types[1].elements[1].function = "true"
    /\ doc.types[1].elements[2].name = Str(<<"n">>)
    /\ doc.types[1].elements[2].function = "false"
    /\ \A e \in 1..2 : doc.types[1].elements[e].description = Str(<<"d">>)
    /\ LET idx == DeclIdx
       IN  /\ Len(idx) = 2
           /\ buf[idx[1] + 1].text = Spaces(FunctionDocIndent) \o <<SQ, "d", SQ>>
           /\ buf[idx[2] + 1].text =
                  Spaces(DefaultIndent) \o T_quotes \o <<NL>>
                  \o Spaces(DefaultIndent) \o <<"n", NL>>
                  \o Spaces(DefaultIndent) \o <<NL>>
                  \o Spaces(DefaultIndent) \o <<"d", NL>>
                  \o Spaces(DefaultIndent) \o T_quotes

(***************************************************************************)
(* C23: for every document the loader accepts, the assertion that each      *)
(* argument of each function element has an empty description holds: the    *)
(* emitter never ends with AssertionError, and with no other exception.     *)
(***************************************************************************)
C23_Original == loaded => exc \notin {"AssertionError"} /\ pc # "failed"

====
